---- MODULE Spec2Model ----
(***************************************************************************)
(* Model of the generation pipeline of DrGame                              *)
(* (src/services/geminiService.ts): the retry loop of generateGameCode and *)
(* the layered extraction / repair of the model's raw text.                *)
(*                                                                         *)
(* Text is modelled as a sequence of tokens.  Every token stands for one   *)
(* fixed piece of text with a fixed character length (TokLen); the tokens  *)
(* are chosen so that no marker the code searches for can straddle two     *)
(* tokens.  The string operations of the code (match, search, substring,   *)
(* trim, replace, includes, length) are translated to that alphabet.       *)
(***************************************************************************)
EXTENDS Integers, Sequences, FiniteSets, TLC

\* ------------------------------------------------------------------ bounds
\* longest raw text (in tokens) the parser is checked on (ParseSpec)
MaxLen == 3
\* longest raw text (in tokens) a generator response carries (Spec)
MaxRespLen == 2

\* ------------------------------------------------------- program constants
\* variant: the loop admits a fourth attempt
MaxAttemptsFour == 3 + 1

MaxAttempts == 3
BackoffBaseMs == 2000
MinHtmlLen == 50

\* ---------------------------------------------------------------- alphabet
\* tokens a raw model output is made of
Alphabet ==
  { "HS", "HE", "JS", "JE",            \* <<<HTML_START>>> <<<HTML_END>>> <<<JSON_START>>> <<<JSON_END>>>
    "DOCTYPE", "doctype",              \* <!DOCTYPE html>   <!doctype html>
    "HTMLO", "HTMLC",                  \* <html> </html>
    "FENCE", "FENCEHTML",              \* ```  ```html
    "CANVAS", "SCRIPT",                \* <canvas> <script>
    "WS", "SHORT", "LONG",             \* whitespace, short prose, 50 characters of markup
    "JLIST", "JEMPTY", "JOBJ"          \* [{"icon":..}]  []  {"a":1}
  }

\* tokens only the repair pass and the synthetic wrap produce:
\* BODYO <body>, BODYC </body>, HEAD <head>..</head>, HTMLWORD html

\* character length of the text a token stands for
TokLen(t) ==
  CASE t = "HS" -> 16 [] t = "HE" -> 14 [] t = "JS" -> 16 [] t = "JE" -> 14
    [] t = "DOCTYPE" -> 15 [] t = "doctype" -> 15
    [] t = "HTMLO" -> 6 [] t = "HTMLC" -> 7 [] t = "BODYO" -> 6 [] t = "BODYC" -> 7
    [] t = "FENCE" -> 3 [] t = "FENCEHTML" -> 7
    [] t = "CANVAS" -> 8 [] t = "SCRIPT" -> 8
    [] t = "WS" -> 1 [] t = "SHORT" -> 5 [] t = "LONG" -> 50
    [] t = "JLIST" -> 52 [] t = "JEMPTY" -> 2 [] t = "JOBJ" -> 7
    [] t = "HEAD" -> 200 [] t = "HTMLWORD" -> 4

RECURSIVE CharLen(_)
\* String.length
CharLen(s) == IF s = <<>> THEN 0 ELSE TokLen(Head(s)) + CharLen(Tail(s))

\* index of the first token of s that lies in S, 0 when there is none
\* (String.match(...).index / String.search; 0 stands for null / -1)
FirstIdx(s, S) ==
  IF \E i \in 1..Len(s) : s[i] \in S
  THEN CHOOSE i \in 1..Len(s) : s[i] \in S /\ \A k \in 1..(i - 1) : s[k] \notin S
  ELSE 0

\* index of the last token of s that lies in S, 0 when there is none
LastIdx(s, S) ==
  IF \E i \in 1..Len(s) : s[i] \in S
  THEN CHOOSE i \in 1..Len(s) : s[i] \in S /\ \A k \in (i + 1)..Len(s) : s[k] \notin S
  ELSE 0

RECURSIVE TrimLeft(_)
TrimLeft(s) == IF s # <<>> /\ Head(s) = "WS" THEN TrimLeft(Tail(s)) ELSE s

RECURSIVE TrimRight(_)
TrimRight(s) ==
  IF s # <<>> /\ s[Len(s)] = "WS" THEN TrimRight(SubSeq(s, 1, Len(s) - 1)) ELSE s

\* String.trim
Trim(s) == TrimRight(TrimLeft(s))

\* String.includes on a token set
Includes(s, S) == \E i \in 1..Len(s) : s[i] \in S

\* tokens matched by /<!DOCTYPE html>/i and by toLowerCase().includes('<!doctype html>')
Doctypes == {"DOCTYPE", "doctype"}

\* tokens matched by /<\/html>/i and by toLowerCase().includes('</html>')
HtmlCloses == {"HTMLC"}

\* ------------------------------------------------------ document extraction
\* variant: without the end delimiter nothing is extracted
ExtractByDelimitersStrict(text) ==
  LET i == FirstIdx(text, {"HS"})
      j == FirstIdx(text, {"HE"})
  IN  IF i # 0 /\ j # 0 /\ j > i + 1 THEN Trim(SubSeq(text, i + 1, j - 1)) ELSE <<>>

\* layer 1: text between the HTML delimiters, trimmed; everything after the
\* start delimiter when the first end delimiter is missing or does not lie
\* strictly after the end of the start delimiter
ExtractByDelimiters(text) ==
  LET i == FirstIdx(text, {"HS"})
      j == FirstIdx(text, {"HE"})
  IN  IF i = 0 THEN <<>>
      ELSE IF j # 0 /\ j > i + 1
           THEN Trim(SubSeq(text, i + 1, j - 1))
           ELSE Trim(SubSeq(text, i + 1, Len(text)))

\* String.substring(a, b) on token positions: from the token at index from
\* up to and including the token at index to; when the end lies before the
\* start, substring swaps its arguments and yields the text between them
SubstringThrough(s, from, to) ==
  IF to >= from THEN SubSeq(s, from, to) ELSE SubSeq(s, to + 1, from - 1)

\* variant: text without any structural marker is taken whole
ExtractByStructureWhole(text) ==
  LET cleanText == SelectSeq(text, LAMBDA t : t \notin {"FENCEHTML", "FENCE"})
      d == FirstIdx(cleanText, Doctypes)
      startIdx == IF d # 0 THEN d ELSE FirstIdx(cleanText, {"HTMLO"})
      endIdx == FirstIdx(cleanText, HtmlCloses)
  IN  IF startIdx = 0 THEN cleanText
      ELSE IF endIdx # 0 THEN SubstringThrough(cleanText, startIdx, endIdx)
           ELSE SubSeq(cleanText, startIdx, Len(cleanText))

\* layers 2 and 3: fences removed, then from the first doctype (else the
\* first <html) through the first </html>, or to the end of the text
ExtractByStructure(text) ==
  LET cleanText == SelectSeq(text, LAMBDA t : t \notin {"FENCEHTML", "FENCE"})
      d == FirstIdx(cleanText, Doctypes)
      startIdx == IF d # 0 THEN d ELSE FirstIdx(cleanText, {"HTMLO"})
      endIdx == FirstIdx(cleanText, HtmlCloses)
  IN  IF startIdx = 0 THEN <<>>
      ELSE IF endIdx # 0 THEN SubstringThrough(cleanText, startIdx, endIdx)
           ELSE SubSeq(cleanText, startIdx, Len(cleanText))

\* variant: the structural layers are tried before the delimiters
ExtractHtmlStructureFirst(text) ==
  LET html == ExtractByStructure(text)
  IN  IF html # <<>> THEN html ELSE ExtractByDelimiters(text)

\* the fragment the extraction layers settle on (empty when none located one)
ExtractHtml(text) ==
  LET html == ExtractByDelimiters(text)
  IN  IF html # <<>> THEN html ELSE ExtractByStructure(text)

\* ------------------------------------------------------ controls extraction
\* a controls value: a list of descriptors, or a value that is no list
ControlList(items) == [isList |-> TRUE, items |-> items]
NonList == [isList |-> FALSE, items |-> <<>>]

\* the descriptor list the payload token JLIST stands for
PayloadControls == << [icon |-> "arrows", label |-> "Move", keyName |-> "none"] >>

\* the single default descriptor
DefaultControls == << [icon |-> "other", label |-> "Play", keyName |-> "Game"] >>

\* JSON.parse of a trimmed payload: ok = FALSE when it throws
JsonParse(s) ==
  LET t == Trim(s)
  IN  IF t = << "JLIST" >> THEN [ok |-> TRUE, value |-> ControlList(PayloadControls)]
      ELSE IF t = << "JEMPTY" >> THEN [ok |-> TRUE, value |-> ControlList(<<>>)]
      ELSE IF t = << "JOBJ" >> THEN [ok |-> TRUE, value |-> NonList]
      ELSE [ok |-> FALSE, value |-> ControlList(<<>>)]

\* tokens in which /\[\s*\{.*\}\s*\]/s can start and end
BracketBlocks == {"JLIST"}

\* the default descriptor replaces a falsy value and a value whose length is 0
\* (a value that is no list has no length)
SubstituteDefault(controls) ==
  IF controls.isList /\ Len(controls.items) = 0
  THEN ControlList(DefaultControls) ELSE controls

\* the controls of a response: between the JSON delimiters when both are
\* present, else the greedy bracket match; unparsed controls stay []
ExtractControls(text) ==
  LET i == FirstIdx(text, {"JS"})
      j == FirstIdx(text, {"JE"})
      a == FirstIdx(text, BracketBlocks)
      b == LastIdx(text, BracketBlocks)
      jsonStr == IF j > i THEN SubSeq(text, i + 1, j - 1) ELSE SubSeq(text, j, i)
      p == IF i # 0 /\ j # 0 THEN JsonParse(jsonStr)
           ELSE IF a # 0 THEN JsonParse(SubSeq(text, a, b))
           ELSE [ok |-> FALSE, value |-> ControlList(<<>>)]
  IN  SubstituteDefault(IF p.ok THEN p.value ELSE ControlList(<<>>))

\* ------------------------------------------------------------ repair / wrap
\* text.replace(/```/g, ''): a bare fence vanishes, ```html leaves "html"
RECURSIVE StripFences(_)
StripFences(s) ==
  IF s = <<>> THEN <<>>
  ELSE IF Head(s) = "FENCE" THEN StripFences(Tail(s))
  ELSE IF Head(s) = "FENCEHTML" THEN << "HTMLWORD" >> \o StripFences(Tail(s))
  ELSE << Head(s) >> \o StripFences(Tail(s))

\* the synthetic document shell around the raw text
SyntheticWrap(text) ==
  << "DOCTYPE", "WS", "HTMLO", "WS", "HEAD", "WS", "BODYO", "WS" >>
    \o StripFences(text) \o << "WS", "BODYC", "WS", "HTMLC" >>

\* variant: the doctype is looked for in upper case only
EnsureDoctypeCaseSensitive(html) ==
  IF ~Includes(html, {"DOCTYPE"}) THEN << "DOCTYPE", "WS" >> \o html ELSE html

\* prepend the doctype when absent
EnsureDoctype(html) ==
  IF ~Includes(html, Doctypes) THEN << "DOCTYPE", "WS" >> \o html ELSE html

\* append the closing sequence when </html> is absent
EnsureClosed(html) ==
  IF ~Includes(html, HtmlCloses) THEN html \o << "WS", "BODYC", "WS", "HTMLC" >> ELSE html

\* "Ensure structure is valid for download"
Repair(html) == EnsureClosed(EnsureDoctype(html))

\* variant: a fragment of exactly 50 characters is rejected too
TooShortInclusive(html) == html = <<>> \/ CharLen(html) <= MinHtmlLen

\* the check that guards the repair: no fragment, or one shorter than 50
TooShort(html) == html = <<>> \/ CharLen(html) < MinHtmlLen

\* text.includes('<canvas') || text.includes('<script')
HasGameCode(text) == Includes(text, {"CANVAS"}) \/ Includes(text, {"SCRIPT"})

\* the body of one attempt after the text is known non-empty:
\* ok = FALSE stands for throw new Error("INVALID_FORMAT")
ParseResponse(text) ==
  LET html == ExtractHtml(text)
      controls == ExtractControls(text)
  IN  IF TooShort(html)
      THEN IF HasGameCode(text)
           THEN [ok |-> TRUE, html |-> SyntheticWrap(text), controls |-> controls]
           ELSE [ok |-> FALSE, html |-> <<>>, controls |-> ControlList(<<>>)]
      ELSE [ok |-> TRUE, html |-> Repair(html), controls |-> controls]

\* ------------------------------------------------------------------- state
VARIABLES
  apiKey,         \* TRUE when getApiKey() returns a non-empty key
  pc,             \* where generateGameCode stands
  attempt,        \* the loop variable of the retry loop
  calls,          \* generator calls made so far (ai.models.generateContent)
  waits,          \* the backoff delays scheduled so far, in ms
  lastError,      \* the variable lastError
  attemptErrors,  \* history: the error caught at each failed attempt
  thrown,         \* the error the call rejected with, "none" otherwise
  response,       \* the latest response of the generator
  result          \* the value the call resolved with

\* the state of generateGameCode
serviceVars == << apiKey, pc, attempt, calls, waits, lastError, attemptErrors, thrown, response, result >>

\* the state of one GameDisplay, of the frame it renders and of the storage
\* it reads and writes
VARIABLES
  mounted,          \* TRUE while App renders a GameDisplay (activeGame set)
  code,             \* the prop code
  gameId,           \* the prop gameId
  currentGameCode,  \* the state currentGameCode
  editableConfig,   \* the state editableConfig
  showEditor,       \* the state showEditor
  refreshKey,       \* the state refreshKey
  isIframeLoaded,   \* the state isIframeLoaded
  urlCount,         \* object URLs created so far (each one is new)
  liveUrls,         \* object URLs created and not yet revoked
  iframeSrc,        \* the object URL assigned to iframe.src, 0 before any
  timer,            \* ms left on the fallback timer of the last effect, -1 when none is armed
  oldTimers,        \* ms left on the timers of earlier effect runs that are still armed
  age,              \* ms since iframe.src was last assigned (capped)
  curLoad,          \* the frame has not yet emitted the load event of iframe.src
  staleLoad,        \* a load event of an earlier src may still be delivered
  currentRating,    \* the state currentRating
  saved,            \* localStorage: the quick-saved text per game id
  lastOp            \* history: the last handler that ran, with its input

displayVars ==
  << mounted, code, gameId, currentGameCode, editableConfig, showEditor, refreshKey,
     isIframeLoaded, urlCount, liveUrls, iframeSrc, timer, oldTimers, age, curLoad,
     staleLoad, currentRating, saved, lastOp >>

\* the state of App: the request form, the preview modal, the game shown and
\* the history list
VARIABLES
  prompt,            \* TRUE when prompt.trim() is not empty
  isLoading,         \* the state isLoading
  isPreviewLoading,  \* the state isPreviewLoading
  showPreview,       \* the state showPreview
  previewImage,      \* TRUE when the state previewImage is not null
  activeGame,        \* the state activeGame, NoGame for null
  history,           \* the state history, newest first
  error,             \* the state error: "none" for null, else which message
  uuids,             \* ids crypto.randomUUID() has returned so far
  inFlight           \* calls of handleGenerate that have not reached their end

requestVars == << prompt, isLoading, isPreviewLoading, showPreview, previewImage, error,
                  uuids, inFlight >>

appVars == << requestVars, activeGame, history >>

\* the display variables but the history variable lastOp
viewVars ==
  << mounted, code, gameId, currentGameCode, editableConfig, showEditor, refreshKey,
     isIframeLoaded, urlCount, liveUrls, iframeSrc, timer, oldTimers, age, curLoad,
     staleLoad, currentRating, saved >>

vars == << serviceVars, displayVars, appVars >>

NoGame == [id |-> 0, code |-> << >>, rating |-> 0]

\* the form is empty, nothing is requested and no preview is shown
RequestIdle ==
  /\ prompt = FALSE
  /\ isLoading = FALSE
  /\ isPreviewLoading = FALSE
  /\ showPreview = FALSE
  /\ previewImage = FALSE
  /\ error = "none"
  /\ uuids = 0
  /\ inFlight = 0

\* App after its first render with nothing in localStorage
AppIdle ==
  /\ RequestIdle
  /\ activeGame = NoGame
  /\ history = << >>

\* no GameDisplay is rendered and nothing is stored
DisplayIdle ==
  /\ mounted = FALSE
  /\ code = <<>>
  /\ gameId = 0
  /\ currentGameCode = <<>>
  /\ editableConfig = <<>>
  /\ showEditor = FALSE
  /\ refreshKey = 0
  /\ isIframeLoaded = FALSE
  /\ urlCount = 0
  /\ liveUrls = {}
  /\ iframeSrc = 0
  /\ timer = 0 - 1
  /\ oldTimers = {}
  /\ age = 0
  /\ curLoad = FALSE
  /\ staleLoad = FALSE
  /\ currentRating = 0
  /\ saved = <<>>
  /\ lastOp = [op |-> "none", arg |-> ""]

\* all token sequences of at most n tokens
TextsUpTo(n) == UNION { [1..k -> Alphabet] : k \in 0..n }

\* the controls block the prompt asks for, around a list, an empty list, a
\* value that is no list, or text that is no JSON; or no block at all
ControlBlocks ==
  { <<>> } \cup { << "JS", p, "JE" >> : p \in {"JLIST", "JEMPTY", "JOBJ", "SHORT"} }

\* raw texts: any token sequence of at most n tokens, then a controls block
RawTexts(n) == { d \o c : d \in TextsUpTo(n), c \in ControlBlocks }

\* messages of errors the transport of the generator call rejects with
TransportErrors == {"NETWORK_ERROR"}

\* variant: a safety refusal is treated like any other failed attempt
FatalErrorsWithoutSafety == {"API_KEY_MISSING"}

\* errors the catch block rethrows at once
FatalErrors == {"SAFETY_ERROR", "API_KEY_MISSING"}

Thrown(msg) == [kind |-> "throw", finish |-> "none", text |-> <<>>, msg |-> msg]
Answer(finish, text) == [kind |-> "resp", finish |-> finish, text |-> text, msg |-> "none"]
NoResponse == [kind |-> "none", finish |-> "none", text |-> <<>>, msg |-> "none"]

\* what one generator call can come back with: a rejection, a response
\* stopped for SAFETY (with or without text), or a response with text
Responses ==
  { Thrown(m) : m \in TransportErrors }
    \cup { Answer("SAFETY", t) : t \in { <<>>, << "HS", "LONG", "HE" >> } }
    \cup { Answer("STOP", t) : t \in RawTexts(MaxRespLen) }

NoResult == [html |-> <<>>, controls |-> ControlList(<<>>)]

\* the try block of one attempt: err = "none" and the value returned, or the
\* message of the error thrown
AttemptBody(resp) ==
  IF resp.kind = "throw" THEN [err |-> resp.msg, value |-> NoResult]
  ELSE IF resp.finish = "SAFETY" THEN [err |-> "SAFETY_ERROR", value |-> NoResult]
  ELSE IF resp.text = <<>> THEN [err |-> "EMPTY_RESPONSE", value |-> NoResult]
  ELSE LET r == ParseResponse(resp.text)
       IN  IF r.ok THEN [err |-> "none", value |-> [html |-> r.html, controls |-> r.controls]]
           ELSE [err |-> "INVALID_FORMAT", value |-> NoResult]

\* variant: the same delay before every retry
BackoffDelayFlat(a) == BackoffBaseMs

\* the delay scheduled after a failed attempt
BackoffDelay(a) == BackoffBaseMs * (a + 1)

\* whether a failed attempt is followed by a wait
WaitsAfter(a) == a < MaxAttempts - 1

\* variant: only the first error is remembered
NextLastErrorFirst(prev, err) == IF prev = "none" THEN err ELSE prev

\* what the catch block stores in lastError
NextLastError(prev, err) == err

Init ==
  /\ apiKey \in BOOLEAN
  /\ pc = "start"
  /\ attempt = 0
  /\ calls = 0
  /\ waits = <<>>
  /\ lastError = "none"
  /\ attemptErrors = <<>>
  /\ thrown = "none"
  /\ response = NoResponse
  /\ result = NoResult
  /\ DisplayIdle
  /\ AppIdle

\* entry of generateGameCode: the key check, then the first loop test
Start ==
  /\ pc = "start"
  /\ IF ~apiKey
     THEN /\ pc' = "failed"
          /\ thrown' = "API_KEY_MISSING"
     ELSE /\ pc' = "call"
          /\ UNCHANGED thrown
  /\ UNCHANGED << apiKey, attempt, calls, waits, lastError, attemptErrors, response, result >>
  /\ UNCHANGED << displayVars, appVars >>

\* one generator call settles: the rest of the try block, and the catch
\* block up to the backoff timer or the final throw
RespondWith(resp) ==
  /\ pc = "call"
  /\ attempt < MaxAttempts
  /\   LET out == AttemptBody(resp)
       IN  /\ response' = resp
           /\ calls' = calls + 1
           /\ IF out.err = "none"
              THEN /\ pc' = "done"
                   /\ result' = out.value
                   /\ UNCHANGED << attempt, waits, lastError, attemptErrors, thrown >>
              ELSE /\ lastError' = NextLastError(lastError, out.err)
                   /\ attemptErrors' = Append(attemptErrors, out.err)
                   /\ UNCHANGED result
                   /\ IF out.err \in FatalErrors
                      THEN /\ pc' = "failed"
                           /\ thrown' = out.err
                           /\ UNCHANGED << attempt, waits >>
                      ELSE IF WaitsAfter(attempt)
                      THEN /\ pc' = "wait"
                           /\ waits' = Append(waits, BackoffDelay(attempt))
                           /\ UNCHANGED << attempt, thrown >>
                      ELSE IF attempt + 1 < MaxAttempts
                      THEN /\ pc' = "call"
                           /\ attempt' = attempt + 1
                           /\ UNCHANGED << waits, thrown >>
                      ELSE /\ pc' = "failed"
                           /\ attempt' = attempt + 1
                           /\ thrown' = IF lastError' # "none" THEN lastError' ELSE "FAILED_AFTER_RETRIES"
                           /\ UNCHANGED waits
  /\ UNCHANGED apiKey
  /\ UNCHANGED << displayVars, appVars >>

\* the backoff timer fires: the try block's response is out of scope,
\* attempt++ and the loop test
Backoff ==
  /\ pc = "wait"
  /\ attempt' = attempt + 1
  /\ response' = NoResponse
  /\ IF attempt + 1 < MaxAttempts
     THEN /\ pc' = "call"
          /\ UNCHANGED thrown
     ELSE /\ pc' = "failed"
          /\ thrown' = IF lastError # "none" THEN lastError ELSE "FAILED_AFTER_RETRIES"
  /\ UNCHANGED << apiKey, calls, waits, lastError, attemptErrors, result >>
  /\ UNCHANGED << displayVars, appVars >>

\* the call comes back with any of the responses
Respond == pc = "call" /\ \E resp \in Responses : RespondWith(resp)

Next == Start \/ Respond \/ Backoff

Spec == Init /\ [][Next]_vars

\* ---------------------------------------------- the parser on its own inputs
\* the body of one attempt applied to every raw text of at most MaxLen tokens
ParseInit ==
  /\ apiKey = TRUE
  /\ pc = "call"
  /\ attempt = MaxAttempts - 1
  /\ calls = 0
  /\ waits = <<>>
  /\ lastError = "none"
  /\ attemptErrors = <<>>
  /\ thrown = "none"
  /\ \E d \in TextsUpTo(MaxLen), c \in ControlBlocks : response = Answer("STOP", d \o c)
  /\ result = NoResult
  /\ DisplayIdle
  /\ AppIdle

ParseStep ==
  /\ pc = "call"
  /\ response.kind = "resp"
  /\ LET out == AttemptBody(response)
     IN  /\ pc' = IF out.err = "none" THEN "done" ELSE "failed"
         /\ result' = out.value
         /\ thrown' = out.err
  /\ UNCHANGED << apiKey, attempt, calls, waits, lastError, attemptErrors, response >>
  /\ UNCHANGED << displayVars, appVars >>

ParseNext == ParseStep

ParseSpec == ParseInit /\ [][ParseNext]_vars

\* ======================================================= GameDisplay.tsx
\* ------------------------------------------------ configuration values
\* A value of the configuration object: ty is what typeof and JSON tell
\* apart, n the number in thousandths (or 0/1 for a boolean), s the characters
\* of a string, sub the members of a nested object.
NoValue == [ty |-> "none", n |-> 0, s |-> <<>>, sub |-> <<>>]
Num(n) == [ty |-> "number", n |-> n, s |-> <<>>, sub |-> <<>>]
NaNValue == [ty |-> "nan", n |-> 0, s |-> <<>>, sub |-> <<>>]
Str(s) == [ty |-> "string", n |-> 0, s |-> s, sub |-> <<>>]
Bool(b) == [ty |-> "boolean", n |-> IF b THEN 1 ELSE 0, s |-> <<>>, sub |-> <<>>]
NullValue == [ty |-> "null", n |-> 0, s |-> <<>>, sub |-> <<>>]
BigIntValue == [ty |-> "bigint", n |-> 1000, s |-> <<>>, sub |-> <<>>]
FunctionValue == [ty |-> "function", n |-> 0, s |-> <<>>, sub |-> <<>>]
Obj(members) == [ty |-> "object", n |-> 0, s |-> <<>>, sub |-> members]

\* { ...prev, [key]: value }: an existing key keeps its place, a new key is
\* added at the end
SetKey(members, key, value) ==
  IF \E i \in 1..Len(members) : members[i].k = key
  THEN [i \in 1..Len(members) |->
          IF members[i].k = key THEN [k |-> key, v |-> value] ELSE members[i]]
  ELSE Append(members, [k |-> key, v |-> value])

\* ------------------------------------------------------- document text
\* The text of a document is a sequence of tokens. A token is a record: t
\* its kind, k the key it names, v the value it writes, json whether it is
\* written the way JSON.stringify writes it ("speed": 5) or the way the
\* author wrote it (speed: 5).
Tok(t) == [t |-> t, k |-> <<>>, v |-> NoValue, json |-> FALSE]
Markup == Tok("MARKUP")       \* text with no brace and no semicolon
Assign == Tok("ASSIGN")       \* window.GAME_CONFIG =
LB == Tok("LB")               \* {
RB == Tok("RB")               \* }
Semi == Tok("SEMI")           \* ;
Stmt == Tok("STMT")           \* a line break and the start of a statement: const player =
Func == Tok("FUNC")           \* function()
Junk == Tok("JUNK")           \* text no object literal can hold
EntryTok(key, value, json) == [t |-> "entry", k |-> key, v |-> value, json |-> json]
KeyTok(key, json) == [t |-> "key", k |-> key, v |-> NoValue, json |-> json]

SubSeqFrom(s, i) == SubSeq(s, i, Len(s))

\* the index of the brace that closes the block opened at i, 0 when none does
RECURSIVE ScanBlock(_, _, _)
ScanBlock(toks, j, depth) ==
  IF j > Len(toks) THEN 0
  ELSE IF toks[j].t = "LB" THEN ScanBlock(toks, j + 1, depth + 1)
  ELSE IF toks[j].t = "RB"
       THEN IF depth = 1 THEN j ELSE ScanBlock(toks, j + 1, depth - 1)
  ELSE ScanBlock(toks, j + 1, depth)

BlockEnd(toks, i) == ScanBlock(toks, i + 1, 1)

\* /window\.GAME_CONFIG\s*=\s*(\{[\s\S]*?\});/ : the first assignment that
\* is followed by an opening brace, then lazily up to the first closing
\* brace that a semicolon follows. from is the index of the assignment, open
\* of the brace, close of the closing brace, to of the semicolon.
RegexMatch(doc) ==
  LET starts == { i \in 1..Len(doc) - 1 : doc[i].t = "ASSIGN" /\ doc[i + 1].t = "LB" }
      Ends(i) == { j \in (i + 2)..(Len(doc) - 1) : doc[j].t = "RB" /\ doc[j + 1].t = "SEMI" }
      hits == { i \in starts : Ends(i) # {} }
  IN  IF hits = {}
      THEN [found |-> FALSE, from |-> 0, open |-> 0, close |-> 0, to |-> 0]
      ELSE LET i == CHOOSE x \in hits : \A y \in hits : x <= y
               j == CHOOSE x \in Ends(i) : \A y \in Ends(i) : x <= y
           IN  [found |-> TRUE, from |-> i, open |-> i + 1, close |-> j, to |-> j + 1]

\* match[1]
Group1(doc) == LET m == RegexMatch(doc) IN SubSeq(doc, m.open, m.close)

\* ------------------------------------- new Function(`return ${match[1]}`)()
ParseFail == [ok |-> FALSE, members |-> <<>>, next |-> 0]

\* a member written again later in the literal keeps its first place and
\* takes the later value
Member(key, value, later) ==
  IF \E i \in 1..Len(later) : later[i].k = key
  THEN << [k |-> key, v |-> (CHOOSE e \in { later[i] : i \in 1..Len(later) } : e.k = key).v] >>
         \o SelectSeq(later, LAMBDA e : e.k # key)
  ELSE << [k |-> key, v |-> value] >> \o later

\* the members of an object literal from position i up to its closing brace;
\* next is the position after that brace
RECURSIVE ParseMembers(_, _)
ParseMembers(toks, i) ==
  IF i > Len(toks) THEN ParseFail
  ELSE
    LET tk == toks[i] IN
    IF tk.t = "RB" THEN [ok |-> TRUE, members |-> <<>>, next |-> i + 1]
    ELSE IF tk.t = "entry"
    THEN LET r == ParseMembers(toks, i + 1)
         IN  IF r.ok
             THEN [ok |-> TRUE, next |-> r.next,
                   members |-> Member(tk.k, tk.v, r.members)]
             ELSE ParseFail
    ELSE IF tk.t = "key" /\ i + 1 <= Len(toks) /\ toks[i + 1].t = "LB"
    THEN LET o == ParseMembers(toks, i + 2)
             r == ParseMembers(toks, o.next)
         IN  IF o.ok /\ r.ok
             THEN [ok |-> TRUE, next |-> r.next,
                   members |-> Member(tk.k, Obj(o.members), r.members)]
             ELSE ParseFail
    ELSE IF tk.t = "key" /\ i + 2 <= Len(toks) /\ toks[i + 1].t = "FUNC" /\ toks[i + 2].t = "LB"
    THEN LET e == BlockEnd(toks, i + 2)
             r == ParseMembers(toks, e + 1)
         IN  IF e # 0 /\ r.ok
             THEN [ok |-> TRUE, next |-> r.next,
                   members |-> Member(tk.k, FunctionValue, r.members)]
             ELSE ParseFail
    ELSE ParseFail

\* the braces of toks pair up
RECURSIVE BracesPairUp(_, _, _)
BracesPairUp(toks, j, depth) ==
  IF j > Len(toks) THEN depth = 0
  ELSE IF toks[j].t = "LB" THEN BracesPairUp(toks, j + 1, depth + 1)
  ELSE IF toks[j].t = "RB" THEN depth > 0 /\ BracesPairUp(toks, j + 1, depth - 1)
  ELSE BracesPairUp(toks, j + 1, depth)

\* text after the returned literal is accepted when it is further
\* statements on a new line (the return ends at the line break, the rest is
\* never run); anything else is a SyntaxError
DeadCode(rest) ==
  \/ rest = <<>>
  \/ /\ rest[1].t = "STMT"
     /\ \A i \in 1..Len(rest) : rest[i].t \in {"STMT", "LB", "RB", "SEMI", "entry", "MARKUP"}
     /\ BracesPairUp(rest, 1, 0)

\* the value the constructed function returns, or ok = FALSE when
\* constructing it throws
EvalLiteral(lit) ==
  LET r == ParseMembers(lit, 2)
  IN  IF r.ok /\ DeadCode(SubSeqFrom(lit, r.next))
      THEN [ok |-> TRUE, config |-> r.members]
      ELSE [ok |-> FALSE, config |-> <<>>]

\* the effect on [currentGameCode]: the next value of editableConfig
ExtractConfig(doc, prev) ==
  LET m == RegexMatch(doc)
  IN  IF m.found
      THEN LET e == EvalLiteral(Group1(doc))
           IN  IF e.ok THEN e.config ELSE prev
      ELSE prev

\* ------------------------------------- JSON.stringify(editableConfig, null, 2)
RECURSIVE HasBigInt(_)
HasBigInt(members) ==
  \E i \in 1..Len(members) :
    \/ members[i].v.ty = "bigint"
    \/ members[i].v.ty = "object" /\ HasBigInt(members[i].v.sub)

\* the members as JSON writes them: a function is left out, NaN is written
\* null
RECURSIVE StringifyMembers(_)
StringifyMembers(members) ==
  IF members = <<>> THEN <<>>
  ELSE
    LET e == Head(members)
        rest == StringifyMembers(Tail(members))
    IN  IF e.v.ty = "function" THEN rest
        ELSE IF e.v.ty = "nan" THEN << EntryTok(e.k, NullValue, TRUE) >> \o rest
        ELSE IF e.v.ty = "object"
        THEN << KeyTok(e.k, TRUE), LB >> \o StringifyMembers(e.v.sub) \o << RB >> \o rest
        ELSE << EntryTok(e.k, e.v, TRUE) >> \o rest

\* ok = FALSE when JSON.stringify throws (a BigInt)
Stringify(members) ==
  IF HasBigInt(members)
  THEN [ok |-> FALSE, toks |-> <<>>]
  ELSE [ok |-> TRUE, toks |-> << LB >> \o StringifyMembers(members) \o << RB >>]

\* String.prototype.replace reads its replacement string as a pattern: $$
\* stands for one $ (the patterns that insert text of the match, $& and $1,
\* are in none of the strings the editor writes here)
RECURSIVE DollarChars(_)
DollarChars(s) ==
  IF Len(s) < 2 THEN s
  ELSE IF s[1] = "$" /\ s[2] = "$" THEN << "$" >> \o DollarChars(SubSeqFrom(s, 3))
  ELSE << s[1] >> \o DollarChars(Tail(s))

DollarPatterns(toks) ==
  [i \in 1..Len(toks) |->
     IF toks[i].t = "entry" /\ toks[i].v.ty = "string"
     THEN [toks[i] EXCEPT !.v = Str(DollarChars(toks[i].v.s))]
     ELSE toks[i]]

\* currentGameCode.replace(regex, `window.GAME_CONFIG = ${newConfigStr};`)
ReplaceConfig(doc, newConfigToks) ==
  LET m == RegexMatch(doc)
  IN  IF m.found
      THEN SubSeq(doc, 1, m.from - 1) \o << Assign >> \o DollarPatterns(newConfigToks)
             \o << Semi >> \o SubSeqFrom(doc, m.to + 1)
      ELSE doc

\* without the try block: the replacement is made with whatever text there
\* is when JSON.stringify fails
AppliedCodeUnguarded(doc, config) == ReplaceConfig(doc, Stringify(config).toks)

\* the text applyConfigChanges passes to setCurrentGameCode; the text it
\* has when the try block throws before the call
AppliedCode(doc, config) ==
  LET j == Stringify(config)
  IN  IF j.ok THEN ReplaceConfig(doc, j.toks) ELSE doc

\* ------------------------------------------------------- renderEditorInput
\* A key is the sequence of the words it is spelt with; Lower gives a word
\* in lower case, so that key.toLowerCase().includes(w) is: some word of the
\* key is w in lower case.
Lower(word) ==
  CASE word = "Volume" -> "volume"
    [] word = "GAIN" -> "gain"
    [] word = "Type" -> "type"
    [] word = "Color" -> "color"
    [] word = "Game" -> "game"
    [] OTHER -> word

KeyIncludesExact(key, w) == \E i \in 1..Len(key) : key[i] = w

KeyIncludes(key, w) == \E i \in 1..Len(key) : Lower(key[i]) = w

\* the control renderEditorInput returns for an entry, "none" for null
InferWidget(key, value) ==
  LET type == value.ty IN
  IF type \in {"number", "nan"} /\ (KeyIncludes(key, "volume") \/ KeyIncludes(key, "gain"))
  THEN "slider"
  ELSE IF type = "string" /\ KeyIncludes(key, "type")
          /\ (KeyIncludes(key, "sound") \/ KeyIncludes(key, "wave"))
  THEN "select"
  ELSE IF type \in {"number", "nan"} THEN "number"
  ELSE IF type = "boolean" THEN "checkbox"
  ELSE IF type = "string"
  THEN IF Len(value.s) > 0 /\ value.s[1] = "#" /\ Len(value.s) \in {4, 7}
       THEN "color"
       ELSE "text"
  ELSE IF type \in {"object", "null"} THEN "json"
  ELSE "none"

\* the attributes of the range input
SliderMin == 0
SliderMax == 1000
SliderStep == 50

\* toFixed(0) of a number given in thousandths: the nearest integer, a half
\* going up
ToFixed0(thousandths) == (thousandths + 500) \div 1000

\* (value * 100).toFixed(0), the text before the % sign
Percent(value) == ToFixed0(value.n * 100)

\* ------------------------------------------------------------ artifacts
\* members an author may write in the configuration literal
PSpeed == << EntryTok(<< "speed" >>, Num(5000), FALSE) >>
PVolume == << EntryTok(<< "master", "Volume" >>, Num(730), FALSE) >>
PColor == << EntryTok(<< "player", "Color" >>, Str(<< "#", "f", "f", "f" >>), FALSE) >>
PMuted == << EntryTok(<< "muted" >>, Bool(FALSE), FALSE) >>
PGain == << EntryTok(<< "GAIN" >>, Num(125), FALSE) >>
PScore == << EntryTok(<< "score" >>, BigIntValue, FALSE) >>
PNested == << KeyTok(<< "spawn" >>, FALSE), LB, EntryTok(<< "x" >>, Num(0), FALSE), RB >>
PInit == << KeyTok(<< "init", "Game" >>, FALSE), Func, LB, Markup, RB >>
PInitLocal == << KeyTok(<< "init", "Game" >>, FALSE), Func, LB, Stmt, LB, RB, Semi, Markup, RB >>
PJunk == << Junk >>

\* what follows the closing brace of the literal: a semicolon; nothing; or
\* no semicolon and a later statement that ends in };
Terminated == << Semi >>
Unterminated == << >>
ThenStatement == << Stmt, LB, EntryTok(<< "x" >>, Num(0), FALSE), RB, Semi >>

\* a document that assigns window.GAME_CONFIG the literal with these members
ConfigDoc(body, ending) ==
  << Markup, Assign, LB >> \o body \o << RB >> \o ending \o << Markup >>

\* a document with a script and no configuration assignment
PlainDoc == << Markup, Stmt, LB, Markup, RB, Semi, Markup >>

\* the documents App may pass as the prop code; the game id of a document is
\* its place in this list
Artifacts ==
  << ConfigDoc(PSpeed \o PVolume, Terminated),
     ConfigDoc(PColor \o PGain, Terminated),
     ConfigDoc(PVolume \o PNested, Terminated),
     ConfigDoc(PSpeed \o PInit, Terminated),
     ConfigDoc(PInitLocal \o PSpeed, Terminated),
     ConfigDoc(PMuted \o PScore, Terminated),
     ConfigDoc(PJunk, Terminated),
     ConfigDoc(<< >>, Terminated),
     ConfigDoc(PSpeed, Unterminated),
     ConfigDoc(PSpeed, ThenStatement),
     ConfigDoc(PNested, ThenStatement),
     ConfigDoc(PMuted, Terminated),
     PlainDoc >>

GameIds == 1..Len(Artifacts)

\* ------------------------------------------------------------- handlers
MaxUrls == 3          \* object URLs one run creates at most
MaxAge == 1500        \* the clock of a resource stops here
MaxSaves == 1         \* game ids with a quick-saved text at most
\* a fallback timer of two seconds
FallbackMsLate == 1000 + 1000

\* the delay of the fallback timer
FallbackMs == 1000
NoTimer == 0 - 1
ClockSteps == {500, 1000}

Min(a, b) == IF a <= b THEN a ELSE b

Op(op, arg) == [op |-> op, arg |-> arg]

\* the cleanup the last run of the effect on [currentGameCode, refreshKey]
\* returned, if it returned one: clearTimeout(timer), revokeObjectURL(url)
Revoked == IF iframeSrc # 0 THEN {iframeSrc} ELSE {}

\* without the clearTimeout of the cleanup: the timer stays armed
AfterCleanupArmed(t) == IF t = NoTimer THEN {} ELSE {t}

\* clearTimeout(timer) in the cleanup: what stays armed of the timer t the
\* last run of the effect set
AfterCleanup(t) == {}

\* without the revokeObjectURL of the cleanup
InstallLeaky(doc) ==
  /\ isIframeLoaded' = FALSE
  /\ oldTimers' = oldTimers \cup AfterCleanup(timer)
  /\ IF doc # << >>
     THEN /\ urlCount' = urlCount + 1
          /\ liveUrls' = liveUrls \cup {urlCount + 1}
          /\ iframeSrc' = urlCount + 1
          /\ timer' = FallbackMs
          /\ age' = 0
          /\ staleLoad' = (staleLoad \/ curLoad)
          /\ curLoad' = TRUE
     ELSE /\ liveUrls' = liveUrls
          /\ timer' = NoTimer
          /\ UNCHANGED << urlCount, iframeSrc, age, curLoad, staleLoad >>

\* the effect on [currentGameCode, refreshKey] runs again: the cleanup of
\* its last run, then setIsIframeLoaded(false), a new object URL for the
\* text, iframe.src, the fallback timer
Install(doc) ==
  /\ isIframeLoaded' = FALSE
  /\ oldTimers' = oldTimers \cup AfterCleanup(timer)
  /\ IF doc # << >>
     THEN /\ urlCount' = urlCount + 1
          /\ liveUrls' = (liveUrls \ Revoked) \cup {urlCount + 1}
          /\ iframeSrc' = urlCount + 1
          /\ timer' = FallbackMs
          /\ age' = 0
          /\ staleLoad' = (staleLoad \/ curLoad)
          /\ curLoad' = TRUE
     ELSE /\ liveUrls' = liveUrls \ Revoked
          /\ timer' = NoTimer
          /\ UNCHANGED << urlCount, iframeSrc, age, curLoad, staleLoad >>

frameVars ==
  << isIframeLoaded, urlCount, liveUrls, iframeSrc, timer, oldTimers, age, curLoad, staleLoad >>

\* a setter that renders and runs the effects whatever the value
SetCodeAlways(next) ==
  /\ currentGameCode' = next
  /\ editableConfig' = ExtractConfig(next, editableConfig)
  /\ Install(next)

\* setCurrentGameCode(next) and the render it causes: nothing when next is
\* the text the state already holds; otherwise the effects on
\* [currentGameCode] run
SetCode(next) ==
  IF next = currentGameCode
  THEN UNCHANGED << currentGameCode, editableConfig, frameVars >>
  ELSE /\ currentGameCode' = next
       /\ editableConfig' = ExtractConfig(next, editableConfig)
       /\ Install(next)

\* item.rating || 0 of the history item with an id, 0 when there is none
RatingOf(id) ==
  IF \E i \in 1..Len(history) : history[i].id = id
  THEN history[CHOOSE i \in 1..Len(history) : history[i].id = id].rating
  ELSE 0

\* App sets activeGame while none is shown: a new GameDisplay, its state
\* from useState, then every effect once
Mount(id) ==
  /\ ~mounted
  /\ urlCount < MaxUrls
  /\ mounted' = TRUE
  /\ code' = Artifacts[id]
  /\ gameId' = id
  /\ currentGameCode' = Artifacts[id]
  /\ editableConfig' = ExtractConfig(Artifacts[id], << >>)
  /\ showEditor' = FALSE
  /\ refreshKey' = 0
  /\ Install(Artifacts[id])
  /\ activeGame' = [id |-> id, code |-> Artifacts[id], rating |-> RatingOf(id)]
  /\ currentRating' = RatingOf(id)
  /\ lastOp' = Op("mount", "")
  /\ UNCHANGED << saved, serviceVars, requestVars, history >>

\* App replaces activeGame while a GameDisplay is shown: new props, the
\* effect on [code]
SelectArtifact(id) ==
  /\ mounted
  /\ urlCount < MaxUrls
  /\ code' = Artifacts[id]
  /\ gameId' = id
  /\ IF Artifacts[id] # code
     THEN SetCode(Artifacts[id])
     ELSE UNCHANGED << currentGameCode, editableConfig, frameVars >>
  /\ activeGame' = [id |-> id, code |-> Artifacts[id], rating |-> RatingOf(id)]
  /\ lastOp' = Op("select", "")
  /\ UNCHANGED << mounted, showEditor, refreshKey, saved, currentRating, serviceVars,
                  requestVars, history >>

\* onClose: the GameDisplay goes; the cleanup of the effect runs
Unmount ==
  /\ mounted
  /\ mounted' = FALSE
  /\ code' = << >>
  /\ gameId' = 0
  /\ currentGameCode' = << >>
  /\ editableConfig' = << >>
  /\ showEditor' = FALSE
  /\ refreshKey' = 0
  /\ isIframeLoaded' = FALSE
  /\ liveUrls' = liveUrls \ Revoked
  /\ iframeSrc' = 0
  /\ timer' = NoTimer
  /\ oldTimers' = oldTimers \cup AfterCleanup(timer)
  /\ age' = 0
  /\ curLoad' = FALSE
  /\ staleLoad' = FALSE
  /\ currentRating' = 0
  /\ activeGame' = NoGame
  /\ lastOp' = Op("unmount", "")
  /\ UNCHANGED << urlCount, saved, serviceVars, requestVars, history >>

\* the edit button, rendered while editableConfig has a key
ToggleEditor ==
  /\ mounted
  /\ Len(editableConfig) > 0
  /\ showEditor' = ~showEditor
  /\ lastOp' = Op("toggle", "")
  /\ UNCHANGED << mounted, code, gameId, currentGameCode, editableConfig, refreshKey,
                  frameVars, saved, currentRating, serviceVars, appVars >>

\* the stars a player can give
Scores == {5}

\* handleRateGame(rating) of App: the rating of activeGame and of its
\* history item; the other fields of both are copied
RateGame(score) ==
  /\ activeGame' = [activeGame EXCEPT !.rating = score]
  /\ history' = [i \in 1..Len(history) |->
                   IF history[i].id = activeGame.id
                   THEN [history[i] EXCEPT !.rating = score]
                   ELSE history[i]]

\* as if the new activeGame object made the effect on [code] run again
HandleRateResync(score) ==
  /\ mounted
  /\ currentRating' = score
  /\ RateGame(score)
  /\ currentGameCode' = code
  /\ editableConfig' = ExtractConfig(code, editableConfig)
  /\ Install(code)
  /\ lastOp' = Op("rate", "")
  /\ UNCHANGED << mounted, code, gameId, showEditor, refreshKey, saved, serviceVars,
                  requestVars >>

\* handleRate(score): setCurrentRating, then onRate, which is handleRateGame
\* of App; the prop code keeps its value, so no effect runs
HandleRate(score) ==
  /\ mounted
  /\ currentRating' = score
  /\ RateGame(score)
  /\ lastOp' = Op("rate", "")
  /\ UNCHANGED << mounted, code, gameId, currentGameCode, editableConfig, showEditor,
                  refreshKey, frameVars, saved, serviceVars, requestVars >>

\* values the control of a kind passes to handleConfigChange
WidgetValues(widget, value) ==
  CASE widget = "slider" -> { Num(SliderMin + SliderStep), Num(SliderMax) }
    [] widget = "select" -> { Str(<< "s", "i", "n", "e" >>) }
    [] widget = "number" -> { Num(250), NaNValue }
    [] widget = "checkbox" -> { Bool(value.n = 0) }
    [] widget = "color" -> { Str(<< "#", "0", "0", "0", "0", "f", "f" >>), Str(<< "$", "$" >>) }
    [] widget = "text" -> { Str(<< "$", "$" >>) }
    [] widget = "json" -> { NullValue }
    [] OTHER -> {}

\* a control of the editor panel changes: handleConfigChange(key, value)
HandleConfigChange(i, value) ==
  /\ mounted
  /\ showEditor
  /\ i \in 1..Len(editableConfig)
  /\ value \in WidgetValues(InferWidget(editableConfig[i].k, editableConfig[i].v),
                            editableConfig[i].v)
  /\ editableConfig' = SetKey(editableConfig, editableConfig[i].k, value)
  /\ lastOp' = Op("edit", "")
  /\ UNCHANGED << mounted, code, gameId, currentGameCode, showEditor, refreshKey,
                  frameVars, saved, currentRating, serviceVars, appVars >>

\* the apply button of the editor panel
ApplyConfigChanges ==
  /\ mounted
  /\ showEditor
  /\ urlCount < MaxUrls
  /\ SetCode(AppliedCode(currentGameCode, editableConfig))
  /\ lastOp' = Op("apply", "")
  /\ UNCHANGED << mounted, code, gameId, showEditor, refreshKey, saved, currentRating, serviceVars, appVars >>

\* what handleReset finds behind iframeRef.current.contentWindow
ResetEntries ==
  { "noWindow", "inaccessible", "initGame", "initGameThrows",
    "configInitGame", "configInitGameThrows", "absent" }

\* without the catch block
ResetOutcomeUncaught(entry) ==
  IF entry = "noWindow" THEN "reload"
  ELSE IF entry \in {"inaccessible", "initGameThrows", "configInitGameThrows"} THEN "none"
  ELSE IF entry \in {"initGame", "configInitGame"} THEN "restart"
  ELSE "reload"

\* handleReset: the entry point runs in place, or refreshKey is raised
ResetOutcome(entry) ==
  IF entry = "noWindow" THEN "reload"
  ELSE IF entry \in {"inaccessible", "initGameThrows", "configInitGameThrows"} THEN "reload"
  ELSE IF entry \in {"initGame", "configInitGame"} THEN "restart"
  ELSE "reload"

HandleReset(entry) ==
  /\ mounted
  /\ IF ResetOutcome(entry) = "reload"
     THEN /\ urlCount < MaxUrls
          /\ refreshKey' = refreshKey + 1
          /\ Install(currentGameCode)
     ELSE UNCHANGED << refreshKey, frameVars >>
  /\ lastOp' = Op("reset", entry)
  /\ UNCHANGED << mounted, code, gameId, currentGameCode, editableConfig, showEditor,
                  saved, currentRating, serviceVars, appVars >>

\* a quick-save of the text the game was given, not of the text it has now
HandleQuickSaveProp(stored) ==
  /\ mounted
  /\ gameId # 0
  /\ Cardinality({ id \in GameIds : saved[id] # << >> }) < MaxSaves
  /\ saved' = IF stored THEN [saved EXCEPT ![gameId] = code] ELSE saved
  /\ lastOp' = Op("save", "")
  /\ UNCHANGED << mounted, code, gameId, currentGameCode, editableConfig, showEditor,
                  refreshKey, frameVars, currentRating, serviceVars, appVars >>

\* handleQuickSave: setItem stores the text, or throws and is caught
HandleQuickSave(stored) ==
  /\ mounted
  /\ gameId # 0
  /\ Cardinality({ id \in GameIds : saved[id] # << >> }) < MaxSaves
  /\ saved' = IF stored THEN [saved EXCEPT ![gameId] = currentGameCode] ELSE saved
  /\ lastOp' = Op("save", "")
  /\ UNCHANGED << mounted, code, gameId, currentGameCode, editableConfig, showEditor,
                  refreshKey, frameVars, currentRating, serviceVars, appVars >>

\* handleQuickLoad
HandleQuickLoad ==
  /\ mounted
  /\ gameId # 0
  /\ urlCount < MaxUrls
  /\ IF saved[gameId] # << >>
     THEN SetCode(saved[gameId])
     ELSE UNCHANGED << currentGameCode, editableConfig, frameVars >>
  /\ lastOp' = Op("load", IF saved[gameId] = << >> THEN "nothing"
                          ELSE IF saved[gameId] = currentGameCode THEN "same"
                          ELSE "restored")
  /\ UNCHANGED << mounted, code, gameId, showEditor, refreshKey, saved, currentRating, serviceVars, appVars >>

\* onLoad of the iframe, for the document iframe.src names
LoadSignal ==
  /\ mounted
  /\ curLoad
  /\ isIframeLoaded' = TRUE
  /\ curLoad' = FALSE
  /\ lastOp' = Op("onLoad", "current")
  /\ UNCHANGED << mounted, code, gameId, currentGameCode, editableConfig, showEditor,
                  refreshKey, urlCount, liveUrls, iframeSrc, timer, oldTimers, age, staleLoad,
                  saved, currentRating, serviceVars, appVars >>

\* onLoad of the iframe, for a document an earlier src named: its load
\* event was queued before src changed
StaleLoadSignal ==
  /\ mounted
  /\ staleLoad
  /\ isIframeLoaded' = TRUE
  /\ staleLoad' = FALSE
  /\ lastOp' = Op("onLoad", "stale")
  /\ UNCHANGED << mounted, code, gameId, currentGameCode, editableConfig, showEditor,
                  refreshKey, urlCount, liveUrls, iframeSrc, timer, oldTimers, age, curLoad,
                  saved, currentRating, serviceVars, appVars >>

\* the timers that are due: the one of the last run of the effect, and
\* those of earlier runs that are still armed
DueTimers ==
  { src \in {"current", "stale"} :
      \/ src = "current" /\ mounted /\ timer = 0
      \/ src = "stale" /\ 0 \in oldTimers }

\* the callback of setTimeout(..., 1000): setIsIframeLoaded(true), which
\* does nothing once the GameDisplay is gone
TimerFires ==
  \E src \in DueTimers :
    /\ isIframeLoaded' = (mounted \/ isIframeLoaded)
    /\ timer' = IF src = "current" THEN NoTimer ELSE timer
    /\ oldTimers' = IF src = "stale" THEN oldTimers \ {0} ELSE oldTimers
    /\ lastOp' = Op("timer", src)
    /\ UNCHANGED << mounted, code, gameId, currentGameCode, editableConfig, showEditor,
                    refreshKey, urlCount, liveUrls, iframeSrc, age, curLoad, staleLoad,
                    saved, currentRating, serviceVars, appVars >>

\* d ms pass; a timer that is due fires before more time passes
Tick(d) ==
  /\ mounted
  /\ timer = NoTimer \/ d <= timer
  /\ \A t \in oldTimers : d <= t
  /\ age < MaxAge
  /\ age' = Min(age + d, MaxAge)
  /\ timer' = IF timer = NoTimer THEN NoTimer ELSE timer - d
  /\ oldTimers' = { t - d : t \in oldTimers }
  /\ lastOp' = Op("tick", "")
  /\ UNCHANGED << mounted, code, gameId, currentGameCode, editableConfig, showEditor,
                  refreshKey, isIframeLoaded, urlCount, liveUrls, iframeSrc, curLoad,
                  staleLoad, saved, currentRating, serviceVars, appVars >>

\* the history list App read from localStorage: the records of the last two
\* artifacts, unrated (the records of the others were deleted)
StoredHistory ==
  [i \in 1..2 |-> [id |-> Len(Artifacts) - 2 + i,
                   code |-> Artifacts[Len(Artifacts) - 2 + i],
                   rating |-> 0]]

\* the generator is idle; nothing is shown and nothing is stored
DisplayInit ==
  /\ apiKey = TRUE
  /\ pc = "start"
  /\ attempt = 0
  /\ calls = 0
  /\ waits = <<>>
  /\ lastError = "none"
  /\ attemptErrors = <<>>
  /\ thrown = "none"
  /\ response = NoResponse
  /\ result = NoResult
  /\ mounted = FALSE
  /\ code = <<>>
  /\ gameId = 0
  /\ currentGameCode = <<>>
  /\ editableConfig = <<>>
  /\ showEditor = FALSE
  /\ refreshKey = 0
  /\ isIframeLoaded = FALSE
  /\ urlCount = 0
  /\ liveUrls = {}
  /\ iframeSrc = 0
  /\ timer = NoTimer
  /\ oldTimers = {}
  /\ age = 0
  /\ curLoad = FALSE
  /\ staleLoad = FALSE
  /\ currentRating = 0
  /\ saved = [id \in GameIds |-> << >>]
  /\ RequestIdle
  /\ activeGame = NoGame
  /\ history = StoredHistory
  /\ lastOp = Op("none", "")

\* a control of the editor panel changes to one of the values it can give
EditConfig ==
  \E i \in 1..Len(editableConfig) :
    \E value \in WidgetValues(InferWidget(editableConfig[i].k, editableConfig[i].v),
                               editableConfig[i].v) :
      HandleConfigChange(i, value)

\* the frame and its resources: a document with a configuration of one
\* entry and one without, every handler, the clock and the load events
SandboxIds == {Len(Artifacts) - 1, Len(Artifacts)}

SandboxNext ==
  \/ \E id \in SandboxIds : Mount(id)
  \/ \E id \in SandboxIds : SelectArtifact(id)
  \/ Unmount
  \/ ToggleEditor
  \/ EditConfig
  \/ ApplyConfigChanges
  \/ \E entry \in ResetEntries : HandleReset(entry)
  \/ \E stored \in BOOLEAN : HandleQuickSave(stored)
  \/ HandleQuickLoad
  \/ LoadSignal
  \/ StaleLoadSignal
  \/ TimerFires
  \/ \E d \in ClockSteps : Tick(d)

SandboxSpec == DisplayInit /\ [][SandboxNext]_vars

\* rating and resetting a game whose text was edited: the two artifacts of
\* the history list, the editor, reset and the stars
RatingNext ==
  \/ \E id \in SandboxIds : Mount(id)
  \/ \E id \in SandboxIds : SelectArtifact(id)
  \/ Unmount
  \/ ToggleEditor
  \/ EditConfig
  \/ ApplyConfigChanges
  \/ \E entry \in ResetEntries : HandleReset(entry)
  \/ \E score \in Scores : HandleRate(score)
  \/ LoadSignal

RatingSpec == DisplayInit /\ [][RatingNext]_vars

\* the configuration editor: every artifact shown first, then a switch to a
\* document with a configuration, to one whose literal does not evaluate or
\* to one with none; the handlers that change the text or the configuration,
\* and the load event of the current document
SwitchIds == {1, 7, Len(Artifacts)}

EditorNext ==
  \/ \E id \in GameIds : Mount(id)
  \/ \E id \in SwitchIds : SelectArtifact(id)
  \/ ToggleEditor
  \/ EditConfig
  \/ ApplyConfigChanges
  \/ \E stored \in BOOLEAN : HandleQuickSave(stored)
  \/ HandleQuickLoad
  \/ LoadSignal

EditorSpec == DisplayInit /\ [][EditorNext]_vars

\* ------------------------------------------------- the editor's controls
MaxStrLen == 7        \* characters of a string value at most

\* characters of a string value: the mark of a color, a hex digit, a letter
\* that is no hex digit
WidgetChars == {"#", "a", "g"}

WidgetStrings == UNION { [1..k -> WidgetChars] : k \in 0..MaxStrLen }

WidgetKeys == { << "color", "Primary" >>, << "sound", "Type" >>, << "title" >> }

\* a GameDisplay shows a document whose configuration has one string entry;
\* the editor panel is open
WidgetInit ==
  \E key \in WidgetKeys, s \in WidgetStrings :
    LET doc == ConfigDoc(<< EntryTok(key, Str(s), FALSE) >>, Terminated) IN
    /\ apiKey = TRUE
    /\ pc = "start"
    /\ attempt = 0
    /\ calls = 0
    /\ waits = <<>>
    /\ lastError = "none"
    /\ attemptErrors = <<>>
    /\ thrown = "none"
    /\ response = NoResponse
    /\ result = NoResult
    /\ mounted = TRUE
    /\ code = doc
    /\ gameId = 1
    /\ currentGameCode = doc
    /\ editableConfig = ExtractConfig(doc, << >>)
    /\ showEditor = TRUE
    /\ refreshKey = 0
    /\ isIframeLoaded = FALSE
    /\ urlCount = 1
    /\ liveUrls = {1}
    /\ iframeSrc = 1
    /\ timer = FallbackMs
    /\ oldTimers = {}
    /\ age = 0
    /\ curLoad = TRUE
    /\ staleLoad = FALSE
    /\ currentRating = 0
    /\ saved = [id \in GameIds |-> << >>]
    /\ lastOp = Op("toggle", "")
    /\ RequestIdle
    /\ activeGame = [id |-> 1, code |-> doc, rating |-> 0]
    /\ history = << [id |-> 1, code |-> doc, rating |-> 0] >>

\* the editor panel renders the control of entry i: renderEditorInput(key,
\* value)
RenderEditorInput(i) ==
  /\ mounted
  /\ showEditor
  /\ i \in 1..Len(editableConfig)
  /\ lastOp' = Op("render", InferWidget(editableConfig[i].k, editableConfig[i].v))
  /\ UNCHANGED << mounted, code, gameId, currentGameCode, editableConfig, showEditor,
                  refreshKey, frameVars, saved, currentRating, serviceVars, appVars >>

WidgetNext == \E i \in 1..Len(editableConfig) : RenderEditorInput(i)

WidgetSpec == WidgetInit /\ [][WidgetNext]_vars

\* -------------------------------------------------------------------- App
MaxGames == 2         \* games generated at most (ids crypto.randomUUID returns)

\* what a generator call comes back with while App waits: a rejection, a
\* safety refusal, text that is no document, text that is one
AppResponses ==
  { Thrown("NETWORK_ERROR"),
    Answer("SAFETY", << >>),
    Answer("STOP", << "SHORT" >>),
    Answer("STOP", << "DOCTYPE", "LONG" >>) }

\* App after its first render; no call of generateGameCode is under way
AppInit ==
  /\ apiKey \in BOOLEAN
  /\ pc = "idle"
  /\ attempt = 0
  /\ calls = 0
  /\ waits = <<>>
  /\ lastError = "none"
  /\ attemptErrors = <<>>
  /\ thrown = "none"
  /\ response = NoResponse
  /\ result = NoResult
  /\ DisplayIdle
  /\ AppIdle

\* the prompt field changes between blank and not blank
SetPrompt(filled) ==
  /\ prompt # filled
  /\ prompt' = filled
  /\ lastOp' = Op("prompt", "")
  /\ UNCHANGED << isLoading, isPreviewLoading, showPreview, previewImage, error, uuids,
                  inFlight, activeGame, history, serviceVars, viewVars >>

\* disabled of the preview button
PreviewDisabled == isLoading \/ isPreviewLoading \/ ~prompt

\* without isLoading in disabled of the button of the modal
ModalGenerateNeverDisabled == FALSE

\* disabled of the generate button of the preview modal
ModalGenerateDisabled == isLoading

\* disabled of the main generate button
MainGenerateDisabled == isLoading \/ ~prompt

\* PreviewModal renders something
ModalOpen == showPreview /\ previewImage

\* handlePreview up to its await
HandlePreview ==
  /\ ~PreviewDisabled
  /\ isPreviewLoading' = TRUE
  /\ error' = "none"
  /\ lastOp' = Op("preview", "")
  /\ UNCHANGED << prompt, isLoading, showPreview, previewImage, uuids, inFlight,
                  activeGame, history, serviceVars, viewVars >>

\* generateGamePreview settles: the rest of handlePreview. isPreviewLoading
\* is TRUE exactly from the call to here
PreviewSettles(image) ==
  /\ isPreviewLoading
  /\ IF image
     THEN /\ previewImage' = TRUE
          /\ showPreview' = TRUE
          /\ UNCHANGED error
     ELSE /\ error' = "generic"
          /\ UNCHANGED << previewImage, showPreview >>
  /\ isPreviewLoading' = FALSE
  /\ lastOp' = Op("previewSettles", IF image THEN "image" ELSE "error")
  /\ UNCHANGED << prompt, isLoading, uuids, inFlight, activeGame, history, serviceVars,
                  viewVars >>

\* onClose of the preview modal
ClosePreview ==
  /\ ModalOpen
  /\ showPreview' = FALSE
  /\ lastOp' = Op("closePreview", "")
  /\ UNCHANGED << prompt, isLoading, isPreviewLoading, previewImage, error, uuids,
                  inFlight, activeGame, history, serviceVars, viewVars >>

\* a click on a generate button that is not disabled: handleGenerate up to
\* its await, where generateGameCode starts
HandleGenerate(trigger) ==
  /\ trigger = "main" => ~MainGenerateDisabled
  /\ trigger = "modal" => (ModalOpen /\ ~ModalGenerateDisabled)
  /\ uuids < MaxGames
  /\ IF ~prompt
     THEN UNCHANGED << showPreview, isLoading, error, inFlight, serviceVars >>
     ELSE /\ showPreview' = FALSE
          /\ isLoading' = TRUE
          /\ error' = "none"
          /\ inFlight' = inFlight + 1
          /\ pc' = "start"
          /\ attempt' = 0
          /\ calls' = 0
          /\ waits' = <<>>
          /\ lastError' = "none"
          /\ attemptErrors' = <<>>
          /\ thrown' = "none"
          /\ response' = NoResponse
          /\ result' = NoResult
          /\ UNCHANGED apiKey
  /\ lastOp' = Op("generate", trigger)
  /\ UNCHANGED << prompt, isPreviewLoading, previewImage, uuids, activeGame, history,
                  viewVars >>

\* a generator call of the generation App waits for settles
AppRespond == pc = "call" /\ \E resp \in AppResponses : RespondWith(resp)

\* the history list with the items in the order of their creation
WithNewItemLast(item, prev) == Append(prev, item)

\* setHistory(prev => [newItem, ...prev])
WithNewItem(item, prev) == << item >> \o prev

\* without the finally block: isLoading is reset on success only
GenerateSettlesNoFinally ==
  /\ pc \in {"done", "failed"}
  /\ inFlight > 0
  /\ IF pc = "done"
     THEN /\ activeGame' = [id |-> uuids + 1, code |-> result.html, rating |-> 0]
          /\ history' = WithNewItem([id |-> uuids + 1, code |-> result.html, rating |-> 0], history)
          /\ uuids' = uuids + 1
          /\ UNCHANGED error
     ELSE /\ error' = IF thrown = "SAFETY_ERROR" THEN "safety" ELSE "generic"
          /\ UNCHANGED << activeGame, history, uuids >>
  /\ isLoading' = (pc # "done")
  /\ inFlight' = inFlight - 1
  /\ pc' = "idle"
  /\ lastOp' = Op("generateSettles", pc)
  /\ UNCHANGED << apiKey, attempt, calls, waits, lastError, attemptErrors, thrown,
                  response, result >>
  /\ UNCHANGED << prompt, isPreviewLoading, showPreview, previewImage, viewVars >>

\* generateGameCode has returned or thrown: the rest of handleGenerate
GenerateSettles ==
  /\ pc \in {"done", "failed"}
  /\ inFlight > 0
  /\ IF pc = "done"
     THEN /\ activeGame' = [id |-> uuids + 1, code |-> result.html, rating |-> 0]
          /\ history' = WithNewItem([id |-> uuids + 1, code |-> result.html, rating |-> 0], history)
          /\ uuids' = uuids + 1
          /\ UNCHANGED error
     ELSE /\ error' = IF thrown = "SAFETY_ERROR" THEN "safety" ELSE "generic"
          /\ UNCHANGED << activeGame, history, uuids >>
  /\ isLoading' = FALSE
  /\ inFlight' = inFlight - 1
  /\ pc' = "idle"
  /\ lastOp' = Op("generateSettles", pc)
  /\ UNCHANGED << apiKey, attempt, calls, waits, lastError, attemptErrors, thrown,
                  response, result >>
  /\ UNCHANGED << prompt, isPreviewLoading, showPreview, previewImage, viewVars >>

\* handleSelectHistoryItem(history[i])
HandleSelectHistoryItem(i) ==
  /\ i \in 1..Len(history)
  /\ activeGame' = [id |-> history[i].id, code |-> history[i].code,
                    rating |-> history[i].rating]
  /\ lastOp' = Op("selectItem", "")
  /\ UNCHANGED << requestVars, history, serviceVars, viewVars >>

\* handleDeleteHistoryItem(history[i].id)
HandleDeleteHistoryItem(i) ==
  /\ i \in 1..Len(history)
  /\ history' = SelectSeq(history, LAMBDA item : item.id # history[i].id)
  /\ lastOp' = Op("deleteItem", "")
  /\ UNCHANGED << requestVars, activeGame, serviceVars, viewVars >>

\* onClose of the GameDisplay: setActiveGame(null)
CloseGame ==
  /\ activeGame # NoGame
  /\ activeGame' = NoGame
  /\ lastOp' = Op("closeGame", "")
  /\ UNCHANGED << requestVars, history, serviceVars, viewVars >>

AppNext ==
  \/ \E filled \in BOOLEAN : SetPrompt(filled)
  \/ HandlePreview
  \/ \E image \in BOOLEAN : PreviewSettles(image)
  \/ ClosePreview
  \/ \E trigger \in {"main", "modal"} : HandleGenerate(trigger)
  \/ Start
  \/ AppRespond
  \/ Backoff
  \/ GenerateSettles
  \/ \E i \in 1..Len(history) : HandleSelectHistoryItem(i)
  \/ \E i \in 1..Len(history) : HandleDeleteHistoryItem(i)
  \/ CloseGame

AppSpec == AppInit /\ [][AppNext]_vars

\* every step of a generation that is under way is taken in the end: each
\* generator call returns or throws, each backoff timer fires, and the
\* continuations of the awaits run
AppFairness ==
  /\ WF_vars(Start)
  /\ WF_vars(AppRespond)
  /\ WF_vars(Backoff)
  /\ WF_vars(GenerateSettles)

AppLiveSpec == AppSpec /\ AppFairness

\* =================================================================== claims

\* ---- orchestrator (Spec)

\* C1: a fatal failure is never retried: without a key the call fails with
\* API_KEY_MISSING before any generator call; a response with finish reason
\* SAFETY at any attempt fails the call with SAFETY_ERROR at that attempt,
\* with no wait scheduled and no generator call made after it.
C1_FatalNeverRetried ==
  /\ ~apiKey => /\ calls = 0
                /\ pc # "start" => (pc = "failed" /\ thrown = "API_KEY_MISSING")
  /\ \A i \in 1..Len(attemptErrors) :
       attemptErrors[i] = "SAFETY_ERROR" =>
         /\ i = Len(attemptErrors)
         /\ pc = "failed"
         /\ thrown = "SAFETY_ERROR"
         /\ calls = i
         /\ Len(waits) = i - 1
  /\ (response.kind = "resp" /\ response.finish = "SAFETY") =>
       (attemptErrors # <<>> /\ attemptErrors[Len(attemptErrors)] = "SAFETY_ERROR")

\* a safety refusal at the third attempt, after two retried failures
C1_Witness ==
  /\ pc = "failed" /\ thrown = "SAFETY_ERROR" /\ calls = 3
  /\ response.finish = "SAFETY" /\ Len(waits) = 2

\* C2: one invocation calls the generator at most 3 times, whatever the
\* generator answers.
C2_AtMostThreeCalls == calls <= 3

\* a third call was made and it succeeded
C2_Witness == calls = 3 /\ pc = "done"

\* C3: after a retryable failure of attempt i (0 or 1) a wait of
\* 2000 * (i + 1) ms is scheduled before the next call; a third-call success
\* returns that attempt's artifact after the waits 2000, 4000; a failed third
\* attempt schedules no wait.
C3_LinearBackoff ==
  /\ Len(waits) <= 2
  /\ \A k \in 1..Len(waits) : waits[k] = 2000 * k
  /\ pc \in {"call", "wait"} => Len(waits) = calls
  /\ (pc \in {"done", "failed"} /\ calls > 0) => Len(waits) = calls - 1
  /\ pc = "wait" => attemptErrors[Len(attemptErrors)] \in {"EMPTY_RESPONSE", "INVALID_FORMAT", "NETWORK_ERROR"}
  /\ pc = "done" => result = AttemptBody(response).value
  /\ (pc = "done" /\ calls = 3) => waits = << 2000, 4000 >>

\* two retryable failures, then a success at the third call
C3_Witness ==
  /\ pc = "done" /\ calls = 3 /\ Len(attemptErrors) = 2
  /\ waits = << 2000, 4000 >> /\ result.html # <<>>

\* C4: when all three attempts fail with retryable errors the call fails
\* with the error of the third attempt.
C4_LastErrorThrown ==
  ( /\ Len(attemptErrors) = 3
    /\ \A i \in 1..3 : attemptErrors[i] \notin {"SAFETY_ERROR", "API_KEY_MISSING"} )
  => (pc = "failed" /\ thrown = attemptErrors[3])

\* three retryable failures with three different errors
C4_Witness ==
  /\ pc = "failed"
  /\ attemptErrors = << "EMPTY_RESPONSE", "NETWORK_ERROR", "INVALID_FORMAT" >>

\* ---- parser (ParseSpec: pc = "call" before the parse, "done" / "failed" after)

\* the raw text has the HTML start delimiter and no HTML end delimiter
StartNoEnd(text) == Includes(text, {"HS"}) /\ ~Includes(text, {"HE"})

\* the trimmed text after the first HTML start delimiter
AfterStart(text) == Trim(SubSeq(text, FirstIdx(text, {"HS"}) + 1, Len(text)))

\* the raw text holds a <canvas or a <script token
GameTokens(text) == \E i \in 1..Len(text) : text[i] \in {"CANVAS", "SCRIPT"}

\* C5 as stated: every raw text with the start delimiter and no end
\* delimiter parses to a non-empty document, however short the text after
\* the start delimiter.
C5_Original ==
  (pc # "call" /\ StartNoEnd(response.text)) => (pc = "done" /\ result.html # <<>>)

\* C5 amended: a raw text with the start delimiter and no end delimiter
\* parses to a non-empty document when the trimmed text after the start
\* delimiter has at least 50 characters or the raw text holds <canvas or
\* <script; when that text is non-empty, shorter than 50 characters and the
\* raw text holds neither token, parsing fails with INVALID_FORMAT.
C5_TruncationTolerance ==
  (pc # "call" /\ StartNoEnd(response.text)) =>
    LET after == AfterStart(response.text)
    IN  /\ (CharLen(after) >= 50 \/ GameTokens(response.text))
             => (pc = "done" /\ result.html # <<>>)
        /\ (after # <<>> /\ CharLen(after) < 50 /\ ~GameTokens(response.text))
             => (pc = "failed" /\ thrown = "INVALID_FORMAT")

\* a truncated response without game tokens whose text after the start
\* delimiter became the document
C5_Witness ==
  /\ pc = "done" /\ StartNoEnd(response.text) /\ ~GameTokens(response.text)
  /\ CharLen(AfterStart(response.text)) >= 50 /\ result.html # <<>>

\* some extraction layer located a fragment
Located(text) ==
  \/ ExtractByDelimiters(text) # <<>>
  \/ ExtractByStructure(text) # <<>>
  \/ GameTokens(text)

\* C6 as stated: INVALID_FORMAT is signalled only when no layer located a
\* fragment.
C6_Original == thrown = "INVALID_FORMAT" => ~Located(response.text)

\* C6 amended: INVALID_FORMAT is signalled exactly when the raw text holds
\* neither <canvas nor <script and the fragment located by the delimiter and
\* structural layers is empty or shorter than 50 characters; otherwise
\* parsing returns a document.
C6_InvalidFormatIffShort ==
  (pc # "call" /\ response.text # <<>>) =>
    /\ thrown = "INVALID_FORMAT"
         <=> (CharLen(ExtractHtml(response.text)) < 50 /\ ~GameTokens(response.text))
    /\ thrown # "INVALID_FORMAT" => (pc = "done" /\ result.html # <<>>)

\* a located, too short fragment was rejected
C6_Witness ==
  /\ pc = "failed" /\ thrown = "INVALID_FORMAT"
  /\ ExtractHtml(response.text) # <<>>

\* the raw text has no HTML delimiter, doctype, <html, fence, <canvas or <script
Markerless(text) ==
  /\ text # <<>>
  /\ \A i \in 1..Len(text) :
       text[i] \notin {"HS", "HE", "DOCTYPE", "doctype", "HTMLO", "FENCE", "FENCEHTML", "CANVAS", "SCRIPT"}

\* C7: a response whose text has no HTML delimiters, no doctype or <html
\* marker, no fences and neither <canvas nor <script fails the attempt with
\* INVALID_FORMAT, and the failure is retried like any retryable error: a
\* wait before the next call, or the final failure after the third call.
C7_OffTopicInvalidFormat ==
  (response.kind = "resp" /\ response.finish = "STOP" /\ Markerless(response.text)) =>
    /\ attemptErrors # <<>>
    /\ attemptErrors[Len(attemptErrors)] = "INVALID_FORMAT"
    /\ \/ pc = "wait" /\ calls < 3 /\ waits[Len(waits)] = 2000 * calls
       \/ pc = "failed" /\ calls = 3 /\ thrown = "INVALID_FORMAT"

\* prose at the second call, being retried
C7_Witness ==
  /\ pc = "wait" /\ calls = 2 /\ response.kind = "resp"
  /\ Markerless(response.text) /\ Len(response.text) >= 2

\* C8: every successful result carries a non-empty list of control
\* descriptors.
C8_ControlsNonEmptyList ==
  pc = "done" => (result.controls.isList /\ Len(result.controls.items) >= 1)

\* the structural markers of a document, in order
Markers(html) == SelectSeq(html, LAMBDA t : t \in {"HTMLO", "HTMLC", "BODYO", "BODYC"})

\* <html>..</html>, with <body>..</body> inside it when there is a body
Balanced(html) ==
  Markers(html) \in { << "HTMLO", "HTMLC" >>, << "HTMLO", "BODYO", "BODYC", "HTMLC" >> }

\* C9: every document a successful generation returns has balanced, ordered
\* <html>/</html> and <body>/</body> markers.
C9_DocumentBalanced == pc = "done" => Balanced(result.html)

C11_ReadyWithinFallback ==
  /\ (mounted /\ iframeSrc # 0 /\ age >= 1000 /\ timer # 0) => isIframeLoaded
  /\ (mounted /\ iframeSrc # 0 /\ ~curLoad) => isIframeLoaded

\* the timer alone made the first document Ready: no load event arrived
C11_Witness ==
  /\ mounted /\ urlCount = 1 /\ curLoad /\ ~staleLoad
  /\ age = 1000 /\ isIframeLoaded /\ lastOp.op = "timer"

\* C12: after any sequence of edits, quick-loads, reloads and artifact
\* changes at most one object URL is live: exactly the one iframe.src names
\* (the newest) while a non-empty document is displayed, and none once the
\* display is torn down.
C12_OneLiveResource ==
  /\ Cardinality(liveUrls) <= 1
  /\ (mounted /\ currentGameCode # << >>) => (liveUrls = {urlCount} /\ iframeSrc = urlCount)
  /\ ~mounted => liveUrls = {}

\* the third resource of one display is installed and the two before it
\* are released
C12_Witness ==
  mounted /\ refreshKey = 1 /\ urlCount = 3 /\ liveUrls = {3} /\ lastOp.op = "apply"

\* C13: the frame is invisible from the moment a resource is installed
\* until the load event of that resource or its timeout, whichever comes
\* first: it is visible (isIframeLoaded) only when the installed resource has
\* signalled or timed out; a load event of a superseded resource does not
\* make it visible.
C13_InvisibleUntilOwnSignal ==
  (mounted /\ isIframeLoaded) => (~curLoad \/ timer = NoTimer)

\* C14: a reset runs the restart entry point in place when it is there and
\* returns, leaving the frame as it is; when it is absent, inaccessible or
\* throws, the same text is installed again under a new object URL and the
\* frame goes back to loading. No reset does neither.
C14_ResetRestartsOrReloads ==
  [][ lastOp'.op = "reset" =>
        IF lastOp'.arg \in {"initGame", "configInitGame"}
        THEN UNCHANGED << currentGameCode, refreshKey, isIframeLoaded, urlCount, liveUrls,
                          iframeSrc, timer >>
        ELSE /\ currentGameCode' = currentGameCode
             /\ refreshKey' = refreshKey + 1
             /\ urlCount' = urlCount + 1
             /\ iframeSrc' = urlCount + 1
             /\ liveUrls' = {urlCount + 1}
             /\ ~isIframeLoaded'
             /\ timer' = 1000 ]_vars

\* a reset of a Ready frame whose window is inaccessible reloaded it
C14_Witness ==
  /\ mounted /\ lastOp = Op("reset", "inaccessible")
  /\ refreshKey = 1 /\ urlCount = 2 /\ liveUrls = {2} /\ ~isIframeLoaded /\ ~staleLoad

\* ---- configuration editor of GameDisplay (EditorSpec)

HasAssignment(doc) == \E i \in 1..Len(doc) : doc[i].t = "ASSIGN"

\* the brace that opens the literal of the first configuration assignment,
\* 0 when there is none
LiteralOpen(doc) ==
  LET opens == { i \in 2..Len(doc) : doc[i].t = "LB" /\ doc[i - 1].t = "ASSIGN" }
  IN  IF opens = {} THEN 0 ELSE CHOOSE i \in opens : \A j \in opens : i <= j

\* the brace that balances LiteralOpen, 0 when none does
LiteralClose(doc) == IF LiteralOpen(doc) = 0 THEN 0 ELSE BlockEnd(doc, LiteralOpen(doc))

\* the text before the assignment, and the text after the balanced closing
\* brace of its literal and the semicolon that ends the assignment
TextBefore(doc) == SubSeq(doc, 1, LiteralOpen(doc) - 2)

TextAfter(doc) ==
  LET rest == SubSeqFrom(doc, LiteralClose(doc) + 1)
  IN  IF rest # << >> /\ rest[1].t = "SEMI" THEN Tail(rest) ELSE rest

\* C15: applying the edits never fails. When the mapping cannot be
\* serialized, or the document has no configuration assignment, the
\* document after applyConfigChanges is the document before it and the
\* running game is untouched: same object URL, same iframe.src, same
\* visibility, same timer.
C15_ApplyFailureLeavesGame ==
  [][ (lastOp'.op = "apply" /\ (~HasAssignment(currentGameCode) \/ HasBigInt(editableConfig)))
        => UNCHANGED << currentGameCode, isIframeLoaded, urlCount, liveUrls, iframeSrc,
                        timer, curLoad >> ]_vars

\* the apply button was pressed on a mapping with a BigInt, which
\* JSON.stringify refuses
C15_Witness ==
  /\ mounted /\ lastOp.op = "apply" /\ HasBigInt(editableConfig)
  /\ currentGameCode = ConfigDoc(PMuted \o PScore, Terminated) /\ urlCount = 1

\* C16: applyConfigChanges replaces only the span of the object literal,
\* up to its balanced closing brace: for every document with a balanced
\* configuration literal, nested or not, terminated by a semicolon or not,
\* and for every edited mapping, the text before the assignment and the
\* text after the balanced closing brace are the same after the step.
C16_OnlyLiteralReplaced ==
  [][ (lastOp'.op = "apply" /\ LiteralClose(currentGameCode) # 0)
        => /\ LiteralClose(currentGameCode') # 0
           /\ TextBefore(currentGameCode') = TextBefore(currentGameCode)
           /\ TextAfter(currentGameCode') = TextAfter(currentGameCode) ]_vars

\* the mapping of the balanced literal of a document
Mapping(doc) ==
  IF LiteralClose(doc) = 0
  THEN ParseFail
  ELSE ParseMembers(SubSeq(doc, 1, LiteralClose(doc)), LiteralOpen(doc) + 1)

HasNestedBraces(doc) ==
  \E i \in (LiteralOpen(doc) + 1)..(LiteralClose(doc) - 1) : doc[i].t = "LB"

\* C17: for a document whose configuration literal is balanced and has
\* nested braces, applying the extracted mapping with no value changed gives
\* an equivalent document: it evaluates to the same mapping, the text outside
\* the literal is the same, and applying once more changes nothing.
C17_NoOpEditIdempotent ==
  [][ (/\ lastOp'.op = "apply"
       /\ LiteralClose(currentGameCode) # 0
       /\ HasNestedBraces(currentGameCode)
       /\ Mapping(currentGameCode).ok
       /\ editableConfig = Mapping(currentGameCode).members)
        => /\ Mapping(currentGameCode') = Mapping(currentGameCode)
           /\ TextBefore(currentGameCode') = TextBefore(currentGameCode)
           /\ TextAfter(currentGameCode') = TextAfter(currentGameCode)
           /\ AppliedCode(currentGameCode', editableConfig') = currentGameCode' ]_vars

\* the frame goes back to loading with a new resource
Reloads ==
  /\ urlCount' = urlCount + 1
  /\ iframeSrc' = urlCount + 1
  /\ liveUrls' = {urlCount + 1}
  /\ ~isIframeLoaded'
  /\ timer' = 1000

\* C18 as stated: every applyConfigChanges on a document with a
\* configuration hands the result to the frame and reloads it, also when the
\* applied mapping is the configuration the document already holds.
C18_Original ==
  [][ (lastOp'.op = "apply" /\ RegexMatch(currentGameCode).found /\ ~HasBigInt(editableConfig))
        => Reloads ]_vars

\* C18: applyConfigChanges reloads the frame with a new resource exactly
\* when the text it produces differs from currentGameCode; when the text is
\* the same (the mapping is already written in the document in serialized
\* form, there is no assignment, or serialization fails) the frame, its
\* resource and its visibility stay as they are.
C18_ReloadIffTextChanges ==
  [][ lastOp'.op = "apply" =>
        IF currentGameCode' # currentGameCode
        THEN Reloads
        ELSE UNCHANGED << isIframeLoaded, urlCount, liveUrls, iframeSrc, timer, curLoad >> ]_vars

\* an apply reloaded a frame that was Ready
C18_Witness ==
  /\ mounted /\ lastOp.op = "apply" /\ urlCount = 2 /\ iframeSrc = 2
  /\ ~isIframeLoaded /\ ~staleLoad /\ currentGameCode # code

\* C19: whenever the current document has no configuration assignment, or
\* its literal does not evaluate, the extracted mapping is empty and the
\* editor is not offered, whatever documents were shown before.
C19_NoConfigNoEditor ==
  (mounted /\ (~RegexMatch(currentGameCode).found \/ ~EvalLiteral(Group1(currentGameCode)).ok))
    => (editableConfig = << >> /\ ~showEditor)

\* a key has the word volume or gain in it, in any case
NamesVolumeOrGain(key) ==
  \E i \in 1..Len(key) : key[i] \in {"volume", "Volume", "VOLUME", "gain", "Gain", "GAIN"}

\* C20: every numeric entry whose key contains volume or gain, in any case,
\* gets the slider from 0 to 1 in steps of 0.05, and the percentage shown is
\* the value times 100 rounded to the nearest integer; 0.73 shows 73.
C20_VolumeSlider ==
  /\ \A i \in 1..Len(editableConfig) :
       LET e == editableConfig[i] IN
       (e.v.ty = "number" /\ NamesVolumeOrGain(e.k)) =>
         /\ InferWidget(e.k, e.v) = "slider"
         /\ \A w \in WidgetValues("slider", e.v) :
              w.ty = "number" /\ 0 <= w.n /\ w.n <= 1000 /\ w.n % 50 = 0
         /\ 2 * (e.v.n * 100 - Percent(e.v) * 1000) <= 1000
         /\ 2 * (Percent(e.v) * 1000 - e.v.n * 100) <= 1000
  /\ SliderMin = 0 /\ SliderMax = 1000 /\ SliderStep = 50
  /\ Percent(Num(730)) = 73

\* the editor shows masterVolume = 0.73 and an upper-case GAIN entry was
\* moved on its slider
C20_Witness ==
  /\ mounted /\ showEditor
  /\ \E i \in 1..Len(editableConfig) :
       /\ editableConfig[i].k = << "GAIN" >>
       /\ editableConfig[i].v = Num(1000)
       /\ Percent(editableConfig[i].v) = 100
  /\ lastOp.op = "edit"

\* ---- the editor's controls (WidgetSpec)

HexDigits ==
  { "0", "1", "2", "3", "4", "5", "6", "7", "8", "9",
    "a", "b", "c", "d", "e", "f", "A", "B", "C", "D", "E", "F" }

\* '#' followed by exactly 3 or exactly 6 hex digits
MatchesHexColor(s) ==
  /\ Len(s) \in {4, 7}
  /\ s[1] = "#"
  /\ \A i \in 2..Len(s) : s[i] \in HexDigits

\* the key names a waveform type
WaveformTypeKey(key) ==
  /\ KeyIncludes(key, "type")
  /\ KeyIncludes(key, "sound") \/ KeyIncludes(key, "wave")

\* C21: a string value gets the color-plus-text pair exactly when it is '#'
\* followed by 3 or 6 hex digits; any other string under a key that names no
\* waveform type gets the free-text control.
C21_ColorIffHexPattern ==
  lastOp.op = "render" =>
    \A i \in 1..Len(editableConfig) :
      LET e == editableConfig[i] IN
      (e.v.ty = "string" /\ ~WaveformTypeKey(e.k)) =>
        /\ (lastOp.arg = "color") <=> MatchesHexColor(e.v.s)
        /\ ~MatchesHexColor(e.v.s) => lastOp.arg = "text"

\* ---- App (AppSpec, AppLiveSpec)

\* C22: at most one call of handleGenerate is under way at any time: while
\* one has not reached its end, isLoading is set and the main generate button
\* is disabled, whatever the order of clicks, preview requests and
\* completions (the button of the preview modal cannot start a second one).
C22_OneGenerationInFlight ==
  /\ inFlight <= 1
  /\ inFlight = 1 => (isLoading /\ MainGenerateDisabled)
  /\ inFlight = 1 <=> pc # "idle"

\* a generation waits for its second attempt while the preview modal, with
\* its own generate button, is on the screen
C22_Witness ==
  /\ inFlight = 1 /\ pc = "wait" /\ ModalOpen /\ prompt

\* the ids of the history items
HistoryIds == { history[i].id : i \in 1..Len(history) }

\* C23: a history record is added, and the active game replaced, by the end
\* of handleGenerate if and only if generateGameCode succeeded: exactly one
\* record per success, put first, with an id no record has had and rating 0,
\* and the same game becomes the active one; when generateGameCode failed,
\* the end of handleGenerate leaves history and the active game as they were.
C23_RecordIffSuccess ==
  [][ /\ lastOp'.op = "generateSettles" =>
           IF pc = "done"
           THEN /\ Len(history') = Len(history) + 1
                /\ SubSeq(history', 2, Len(history')) = history
                /\ history'[1].code = result.html
                /\ history'[1].rating = 0
                /\ history'[1].id \notin HistoryIds
                /\ history'[1].id > uuids
                /\ activeGame' = history'[1]
           ELSE /\ history' = history
                /\ activeGame' = activeGame
      /\ Len(history') > Len(history) => (lastOp'.op = "generateSettles" /\ pc = "done")
    ]_vars

\* a second success: its record stands before the record of the first
C23_Witness ==
  /\ lastOp = Op("generateSettles", "done")
  /\ Len(history) = 2
  /\ history[1].id = 2 /\ history[2].id = 1
  /\ activeGame = history[1]
  /\ ~isLoading

\* C29: the preview modal is never on the screen while a generation is under
\* way: no order of a preview request completing and a generation starting
\* shows the modal before the generation has ended.
C29_NoPreviewWhileGenerating ==
  inFlight > 0 => ~ModalOpen

\* C30: every generation ends and submission is possible again: when each
\* generator call returns or throws, a call of handleGenerate that is under
\* way reaches its end with isLoading cleared, on success and on every
\* failure, and no generation makes more than 3 generator calls or waits
\* more than 2 backoff delays.
C30_GenerationCompletes ==
  /\ (inFlight > 0) ~> (inFlight = 0 /\ ~isLoading)
  /\ [](calls <= 3 /\ Len(waits) <= 2)

\* a generation that used every attempt and both waits has ended in its
\* catch block, and the generate button is enabled again
C30_Witness ==
  /\ lastOp = Op("generateSettles", "failed")
  /\ calls = 3 /\ Len(waits) = 2
  /\ inFlight = 0 /\ ~isLoading /\ ~MainGenerateDisabled
  /\ error = "generic"

\* ---- quick-save and quick-load (SandboxSpec)

\* C24: the saved state is a copy of documentSource kept per game id, apart
\* from the history list. A quick-save that stores writes the current text
\* under the id of the game shown and touches no other id; a quick-load
\* makes documentSource the text saved for the game shown, whatever edits,
\* resets or switches came in between, and leaves it alone when nothing is
\* saved for that game; neither changes the history list, the active game or
\* what is saved (beyond the one write of quick-save).
C24_SaveLoadRoundTrip ==
  [][ /\ lastOp'.op = "save" =>
           /\ saved' \in { saved, [saved EXCEPT ![gameId] = currentGameCode] }
           /\ currentGameCode' = currentGameCode
           /\ history' = history /\ activeGame' = activeGame
      /\ lastOp'.op = "load" =>
           /\ currentGameCode' = IF saved[gameId] # << >> THEN saved[gameId]
                                 ELSE currentGameCode
           /\ saved' = saved
           /\ history' = history /\ activeGame' = activeGame
      /\ saved' # saved => lastOp'.op = "save"
    ]_vars

\* the text was saved before an edit was applied, and quick-load has just
\* brought the saved text back: it is the document as it was given, not the
\* edited one, and the frame reloads it
C24_Witness ==
  /\ lastOp = Op("load", "restored")
  /\ currentGameCode = saved[gameId]
  /\ currentGameCode = code
  /\ urlCount = 3
  /\ history = StoredHistory

\* ---- the fallback timer (SandboxSpec)

\* C26: the fallback timer dies with its resource: when the effect runs
\* again for a new resource, or the GameDisplay goes, the timer of the last
\* run is cancelled, so no timer of an earlier run is armed, no timer is
\* armed when nothing is shown, and a timer callback that runs is always the
\* one of the resource iframe.src names.
C26_OnlyCurrentTimerFires ==
  /\ oldTimers = {}
  /\ ~mounted => timer = NoTimer
  /\ lastOp.op = "timer" => lastOp.arg = "current"
  /\ timer # NoTimer => (iframeSrc # 0 /\ iframeSrc \in liveUrls /\ timer = FallbackMs - age)

\* two resources were superseded; the timer of the third has just shown the
\* frame, 1000 ms after that resource was installed
C26_Witness ==
  /\ lastOp = Op("timer", "current")
  /\ iframeSrc = 3 /\ liveUrls = {3}
  /\ age = FallbackMs
  /\ isIframeLoaded

\* ---- reset and rating (RatingSpec)

\* C27: neither handleReset nor handleRate changes documentSource (nor the
\* edited mapping): a reset that reloads materializes the current text, the
\* applied edits included, as a new resource; a rating changes only the
\* stars, the rating of the active game and of its history record, and
\* reloads nothing.
C27_ResetAndRateKeepDocument ==
  [][ /\ lastOp'.op \in {"reset", "rate"} =>
           /\ currentGameCode' = currentGameCode
           /\ editableConfig' = editableConfig
           /\ code' = code
      /\ lastOp'.op = "rate" =>
           /\ << isIframeLoaded, urlCount, liveUrls, iframeSrc, timer, refreshKey >>' =
                << isIframeLoaded, urlCount, liveUrls, iframeSrc, timer, refreshKey >>
           /\ activeGame'.code = activeGame.code /\ activeGame'.id = activeGame.id
           /\ Len(history') = Len(history)
           /\ \A i \in 1..Len(history) :
                /\ history'[i].code = history[i].code
                /\ history'[i].id = history[i].id
                /\ history[i].id # activeGame.id => history'[i] = history[i]
    ]_vars

\* a game whose applied edit changed its text has been rated: the edited
\* text is still the document, in the resource the edit installed, and the
\* frame that had loaded is still shown
C27_Witness ==
  /\ lastOp.op = "rate"
  /\ currentGameCode # code
  /\ activeGame.rating = 5 /\ currentRating = 5
  /\ \E i \in 1..Len(history) : history[i].id = gameId /\ history[i].rating = 5
  /\ urlCount = 2 /\ iframeSrc = 2
  /\ isIframeLoaded

\* ---- applying edits (EditorSpec)

\* the mapping the extraction effect reads from a document
Extracted(doc) ==
  IF RegexMatch(doc).found THEN EvalLiteral(Group1(doc)) ELSE [ok |-> FALSE, config |-> << >>]

\* C28: an apply that rewrites the document preserves the edited mapping:
\* extraction from the new text succeeds and gives exactly the mapping that
\* was applied, every key with a value of the type it had (a number stays a
\* number, also after its field was cleared) and so with the same control.
C28_ApplyPreservesConfig ==
  [][ (lastOp'.op = "apply" /\ currentGameCode' # currentGameCode)
        => /\ Extracted(currentGameCode').ok
           /\ Extracted(currentGameCode').config = editableConfig
           /\ editableConfig' = editableConfig
           /\ \A i \in 1..Len(editableConfig) :
                /\ editableConfig'[i].k = editableConfig[i].k
                /\ (editableConfig[i].v.ty \in {"number", "nan"}) =>
                     (editableConfig'[i].v.ty \in {"number", "nan"})
                /\ InferWidget(editableConfig'[i].k, editableConfig'[i].v) =
                     InferWidget(editableConfig[i].k, editableConfig[i].v) ]_vars

\* ---- the order of the extraction layers (ParseSpec)

\* C25 as stated: whenever the delimiter layer yields a non-empty text and a
\* document is returned, the document is that text, repaired, not a
\* structural match and not the synthetic wrap of the whole raw text.
C25_Original ==
  (pc = "done" /\ ExtractByDelimiters(response.text) # <<>>) =>
    result.html = Repair(ExtractByDelimiters(response.text))

\* C25 amended: when the delimiter layer yields a non-empty text the
\* structural layers are never consulted. If that text has at least 50
\* characters it is the document, repaired and returned. If it is shorter,
\* the result is the synthetic wrap of the whole raw text when the raw text
\* holds <canvas or <script, and INVALID_FORMAT otherwise, whatever the
\* structural layers would have matched.
C25_FirstLayerWins ==
  (pc # "call" /\ ExtractByDelimiters(response.text) # <<>>) =>
    LET d == ExtractByDelimiters(response.text) IN
    /\ CharLen(d) >= MinHtmlLen => (pc = "done" /\ result.html = Repair(d))
    /\ (CharLen(d) < MinHtmlLen /\ GameTokens(response.text)) =>
         (pc = "done" /\ result.html = SyntheticWrap(response.text))
    /\ (CharLen(d) < MinHtmlLen /\ ~GameTokens(response.text)) =>
         (pc = "failed" /\ thrown = "INVALID_FORMAT" /\ result.html = <<>>)

\* both the delimiter layer and the structural layers match, on different
\* texts, and the document returned is the repaired delimiter text
C25_Witness ==
  /\ pc = "done"
  /\ CharLen(ExtractByDelimiters(response.text)) >= MinHtmlLen
  /\ ExtractByStructure(response.text) # <<>>
  /\ Repair(ExtractByStructure(response.text)) # Repair(ExtractByDelimiters(response.text))
  /\ result.html = Repair(ExtractByDelimiters(response.text))

====
